---- MODULE Spec2Model ----
(***************************************************************************)
(* Model of scripts/generate.py: the mead tasting report generator.        *)
(*                                                                         *)
(* Text values are sequences of one-character strings, so that splitting   *)
(* and whitespace normalisation are computed character by character.       *)
(* Column names carrying non-ASCII letters are written in ASCII:           *)
(* "Sotma" for the sweetness column, "Ovrigt" for the catch-all column.    *)
(* Figure coordinates are kept in hundredths (0.85 is 85).                 *)
(***************************************************************************)
EXTENDS Integers, Sequences, FiniteSets, TLC

VARIABLES pc, arg, res, nfolders, inst, cur, figs, ids, cat, nums, docs, calls

vars == <<pc, arg, res, nfolders, inst, cur, figs, ids, cat, nums, docs, calls>>

driverVars == <<nfolders, inst, cur, figs, ids, cat, nums, docs, calls>>

\* ------------------------------------------------------------------ bounds

MaxLen == 4

MaxMeadRows == 2

MaxCatRows == 3

MaxRows == 3

MaxInstances == 2

\* ------------------------------------------------------------ text values

Whitespace == {" ", "\t"}

Chars == {"a", "b", " ", "\t", ";"}

SeqsUpTo(S, n) == UNION {[1..k -> S] : k \in 0..n}

\* a Python value reaching clean_split: a str, or a non-str cell (an empty
\* CSV field is read as the float NaN; a numeric cell is an int)
Str(chars) == [type |-> "str", chars |-> chars]

NaN == [type |-> "float", chars |-> <<>>]

IntCell == [type |-> "int", chars |-> <<>>]

\* str.split(";"): cut at every separator, empty pieces kept
RECURSIVE split_sep(_, _)
split_sep(s, sep) ==
    IF \A i \in 1..Len(s) : s[i] # sep
    THEN <<s>>
    ELSE LET k == CHOOSE i \in 1..Len(s) :
                      s[i] = sep /\ \A j \in 1..(i - 1) : s[j] # sep
         IN <<SubSeq(s, 1, k - 1)>> \o split_sep(SubSeq(s, k + 1, Len(s)), sep)

\* str.split(): cut at runs of whitespace, no empty words
RECURSIVE split_ws(_)
split_ws(s) ==
    IF s = <<>> THEN <<>>
    ELSE IF Head(s) \in Whitespace THEN split_ws(Tail(s))
    ELSE LET k == CHOOSE i \in 1..Len(s) :
                      /\ \A j \in 1..i : s[j] \notin Whitespace
                      /\ (i = Len(s) \/ s[i + 1] \in Whitespace)
         IN <<SubSeq(s, 1, k)>> \o split_ws(SubSeq(s, k + 1, Len(s)))

\* sep.join(words)
RECURSIVE join(_, _)
join(sep, words) ==
    IF words = <<>> THEN <<>>
    ELSE IF Len(words) = 1 THEN words[1]
    ELSE words[1] \o sep \o join(sep, Tail(words))

\* str.strip()
RECURSIVE strip(_)
strip(s) ==
    IF s = <<>> THEN <<>>
    ELSE IF Head(s) \in Whitespace THEN strip(Tail(s))
    ELSE IF s[Len(s)] \in Whitespace THEN strip(SubSeq(s, 1, Len(s) - 1))
    ELSE s

clean_split_strip_only(string) ==
    IF string.type # "str" THEN <<>>
    ELSE LET pieces == split_sep(string.chars, ";")
         IN [i \in 1..Len(pieces) |-> strip(pieces[i])]

clean_split(string) ==
    IF string.type # "str" THEN <<>>
    ELSE LET pieces == split_sep(string.chars, ";")
         IN [i \in 1..Len(pieces) |-> join(<<" ">>, split_ws(pieces[i]))]

\* ------------------------------------------------- clean_split on its own

Idle == [op |-> "none"]

DriverIdle ==
    /\ nfolders = 0
    /\ inst = 0
    /\ cur = Idle
    /\ figs = <<>>
    /\ ids = <<>>
    /\ cat = 0
    /\ nums = <<>>
    /\ docs = <<>>
    /\ calls = <<>>

SplitInputs == {Str(s) : s \in SeqsUpTo(Chars, MaxLen)} \cup {NaN, IntCell}

InitSplit ==
    /\ pc = "call"
    /\ arg \in SplitInputs
    /\ res = Idle
    /\ DriverIdle

CallCleanSplit ==
    /\ pc = "call"
    /\ pc' = "return"
    /\ res' = [op |-> "clean_split", tokens |-> clean_split(arg)]
    /\ UNCHANGED <<arg, driverVars>>

NextSplit == CallCleanSplit

SpecSplit == InitSplit /\ [][NextSplit]_vars

\* positions of the separators of a string, and its k-th piece, read off the
\* positions directly
SemiPos(s) == {i \in 1..Len(s) : s[i] = ";"}

Bounds(s) == SemiPos(s) \cup {0, Len(s) + 1}

NthBound(s, k) ==
    CHOOSE p \in Bounds(s) : Cardinality({q \in Bounds(s) : q < p}) = k

Piece(s, k) == SubSeq(s, NthBound(s, k - 1) + 1, NthBound(s, k) - 1)

NonWs(s) == SelectSeq(s, LAMBDA c : c \notin Whitespace)

NonWsPos(s) == {i \in 1..Len(s) : s[i] \notin Whitespace}

\* number of non-whitespace characters before position i
Rank(s, i) == Cardinality({j \in NonWsPos(s) : j < i})

\* the token is the piece with its whitespace normalised
Normalised(tok, piece) ==
    /\ NonWs(tok) = NonWs(piece)
    /\ \A i \in 1..Len(tok) : tok[i] \in Whitespace =>
           /\ tok[i] = " "
           /\ 1 < i /\ i < Len(tok)
           /\ tok[i - 1] \notin Whitespace /\ tok[i + 1] \notin Whitespace
    /\ \A i \in NonWsPos(tok), j \in NonWsPos(piece) :
           Rank(tok, i) = Rank(piece, j) =>
               ((i + 1) \in NonWsPos(tok) <=> (j + 1) \in NonWsPos(piece))

\* C7: clean_split returns the empty sequence for every non-string input,
\* and for a string with n semicolons exactly n + 1 tokens in input order,
\* each the corresponding piece with its ends trimmed and every inner
\* whitespace run replaced by one space, no other character lost or moved.
C7_CleanSplit ==
    pc = "return" =>
        IF arg.type # "str" THEN res.tokens = <<>>
        ELSE /\ Len(res.tokens) = Cardinality(SemiPos(arg.chars)) + 1
             /\ \A k \in 1..Len(res.tokens) :
                    Normalised(res.tokens[k], Piece(arg.chars, k))

C7_Witness ==
    /\ pc = "return"
    /\ arg = Str(<<";", "a", "\t", "b">>)
    /\ res.tokens = <<<<>>, <<"a", " ", "b">>>>

\* ------------------------------------------------------- tables and names

Ids == {1, 8}

\* an identifier no row carries
NoRowsIds == {99}

Namn(i) == IF i = 1 THEN "Alpha" ELSE "Theta"

\* the dict handed to IdNameMapper.__init__, one per subset of the known ids
NameMaps == {[i \in S |-> Namn(i)] : S \in SUBSET Ids}

Contains(id_name_map, key) == key \in DOMAIN id_name_map

\* IdNameMapper.__getitem__: "({}) ".format(key) + name; the dict lookup
\* raises KeyError for an absent key
getitem(id_name_map, key) ==
    IF Contains(id_name_map, key)
    THEN [err |-> "none", fmt |-> "(id) name", id |-> key, name |-> id_name_map[key]]
    ELSE [err |-> "KeyError", fmt |-> "", id |-> key, name |-> ""]

Row(id, sotma, helhet, smak, bismak, ovrigt) ==
    [Id |-> id, Sotma |-> sotma, Syrlighet |-> 5, Fyllighet |-> 5,
     Helhetsbetyg |-> helhet, Smaknoter |-> smak, Bismaker |-> bismak,
     Ovrigt |-> ovrigt]

\* df.query("Id == {}".format(id))
query(df, id) == SelectSeq(df, LAMBDA r : r.Id = id)

\* df.filter(columns)
filter3(df) ==
    [i \in 1..Len(df) |->
        [Sotma |-> df[i].Sotma, Syrlighet |-> df[i].Syrlighet,
         Fyllighet |-> df[i].Fyllighet]]

\* .filter([col]).transform({col: clean_split}): one token list per row
transform(df, col) == [i \in 1..Len(df) |-> clean_split(df[i][col])]

RECURSIVE concat(_)
concat(lists) == IF lists = <<>> THEN <<>> ELSE Head(lists) \o concat(Tail(lists))

\* .sum() of an object column: the lists added up in row order; the sum of
\* a column with no rows is the number 0, not a list
pandas_sum(lists) ==
    IF lists = <<>> THEN [kind |-> "int", items |-> <<>>]
    ELSE [kind |-> "list", items |-> concat(lists)]

\* Counter(iterable): a dict in first-seen order; counts[k] pairs a key with
\* the number of times it was seen
RECURSIVE Counter(_)
Counter(items) ==
    IF items = <<>> THEN <<>>
    ELSE LET c == Counter(SubSeq(items, 1, Len(items) - 1))
             t == items[Len(items)]
         IN IF \E i \in 1..Len(c) : c[i].key = t
            THEN [i \in 1..Len(c) |->
                     IF c[i].key = t THEN [key |-> t, n |-> c[i].n + 1] ELSE c[i]]
            ELSE Append(c, [key |-> t, n |-> 1])

\* ------------------------------------------------------- figure layout

PanelX == 72

CursorY == 85

LineStep == 4

GroupStep == 6

RightFull == 90

RightPanel == 70

TitleSize == 14

LineSize == 10

figtext(x, y, s, fontsize) == [x |-> x, y |-> y, s |-> s, fontsize |-> fontsize]

\* "({}) {}".format(c[text], text)
CountLine(entry) == [fmt |-> "(n) text", n |-> entry.n, text |-> entry.key]

PlainLine(text) == [fmt |-> "text", n |-> 0, text |-> text]

TitleLine(title) == [fmt |-> "title", n |-> 0, text |-> title]

write_counter_no_gap(x, y, title, c) ==
    [texts |-> <<figtext(x, y, TitleLine(title), TitleSize)>> \o
                   [i \in 1..Len(c) |->
                       figtext(x, y - LineStep * i, CountLine(c[i]), LineSize)],
     x_pos |-> x,
     y_pos |-> y - LineStep * Len(c)]

write_counter(x, y, title, c) ==
    [texts |-> <<figtext(x, y, TitleLine(title), TitleSize)>> \o
                   [i \in 1..Len(c) |->
                       figtext(x, y - LineStep * i, CountLine(c[i]), LineSize)],
     x_pos |-> x,
     y_pos |-> y - LineStep * Len(c) - GroupStep]

write_list(x, y, title, l) ==
    [texts |-> <<figtext(x, y, TitleLine(title), TitleSize)>> \o
                   [i \in 1..Len(l) |->
                       figtext(x, y - LineStep * i, PlainLine(l[i]), LineSize)],
     x_pos |-> x,
     y_pos |-> y - LineStep * Len(l) - GroupStep]

NoFigure == [kind |-> "none"]

Raise(e, created, fig) == [err |-> e, created |-> created, fig |-> fig]

\* one emitted group: its lines join the figure, the cursor moves on, and
\* subplots_adjust(right=0.7) reserves the panel
emit(g, w) ==
    [texts |-> g.texts \o w.texts, x_pos |-> w.x_pos, y_pos |-> w.y_pos,
     right |-> RightPanel]

\* lines 111-123: the annotation panel, group by group
annotate(notes, off_flavors, other) ==
    LET g0 == [texts |-> <<>>, x_pos |-> PanelX, y_pos |-> CursorY,
               right |-> RightFull]
        g1 == IF Len(notes) > 0
              THEN emit(g0, write_counter(g0.x_pos, g0.y_pos, "Smaknoter", notes))
              ELSE g0
        g2 == IF Len(off_flavors) > 0
              THEN emit(g1, write_counter(g1.x_pos, g1.y_pos, "Bismaker", off_flavors))
              ELSE g1
        g3 == IF Len(other) > 0
              THEN emit(g2, write_list(g2.x_pos, g2.y_pos, "Ovrigt", other))
              ELSE g2
    IN g3

plot_mead_info(df, id, id_name_map) ==
    LET this_df == query(df, id)
        filtered_df == filter3(this_df)
        notes_sum == pandas_sum(transform(this_df, "Smaknoter"))
        off_sum == pandas_sum(transform(this_df, "Bismaker"))
        other == pandas_sum(transform(this_df, "Ovrigt"))
        title == getitem(id_name_map, id)
    IN IF notes_sum.kind # "list" \/ off_sum.kind # "list"
       THEN Raise("TypeError", FALSE, NoFigure)
       ELSE LET notes == Counter(notes_sum.items)
                off_flavors == Counter(off_sum.items)
                bare == [kind |-> "mead", key |-> id, data |-> filtered_df,
                         notes |-> notes, off_flavors |-> off_flavors,
                         other |-> other.items, suptitle |-> title,
                         right |-> RightFull, texts |-> <<>>]
            IN IF title.err # "none" THEN Raise("KeyError", TRUE, bare)
               ELSE IF other.kind # "list" THEN Raise("TypeError", TRUE, bare)
               ELSE LET a == annotate(notes, off_flavors, other.items)
                    IN Raise("none", TRUE,
                             [bare EXCEPT !.right = a.right, !.texts = a.texts])

\* ---------------------------------------------- plot_mead_info on its own

NoteSamples == {NaN, Str(<<"a">>), Str(<<" ", "a", " ", ";", "b">>)}

OffSamples == {NaN, Str(<<"b">>)}

OtherSamples == {NaN, Str(<<"a", ";", "a">>)}

MeadRows ==
    {Row(i, 5, 5, n, o, x) :
        i \in Ids, n \in NoteSamples, o \in OffSamples, x \in OtherSamples}

InitMead ==
    /\ pc = "call"
    /\ arg \in [df : SeqsUpTo(MeadRows, MaxMeadRows),
                id : Ids \cup NoRowsIds,
                id_name_map : NameMaps]
    /\ res = Idle
    /\ DriverIdle

CallPlotMeadInfo ==
    /\ pc = "call"
    /\ pc' = "return"
    /\ res' = plot_mead_info(arg.df, arg.id, arg.id_name_map)
    /\ UNCHANGED <<arg, driverVars>>

NextMead == CallPlotMeadInfo

SpecMead == InitMead /\ [][NextMead]_vars

\* C6: with an identifier matching no row, the rating subframe, both
\* frequency tables and the other-list are empty and no error is raised.
C6_EmptyGroupNoError ==
    (pc = "return" /\ query(arg.df, arg.id) = <<>>) =>
        /\ res.err \in {"none", "KeyError"}
        /\ res.fig.data = <<>>
        /\ res.fig.notes = <<>>
        /\ res.fig.off_flavors = <<>>
        /\ res.fig.other = <<>>

\* occurrences of token t in the normalised field col of the rows of df
\* whose Id is id, counted position by position
Occurrences(df, id, col, t) ==
    Cardinality(UNION {{<<i, j>> : j \in {j \in 1..Len(clean_split(df[i][col])) :
                                             clean_split(df[i][col])[j] = t}} :
                          i \in {i \in 1..Len(df) : df[i].Id = id}})

TokensOf(df, col) ==
    UNION {{clean_split(df[i][col])[j] : j \in 1..Len(clean_split(df[i][col]))} :
              i \in 1..Len(df)}

ExactTable(table, df, id, col) ==
    /\ \A i, j \in 1..Len(table) : table[i].key = table[j].key => i = j
    /\ \A i \in 1..Len(table) :
           table[i].n > 0 /\ table[i].n = Occurrences(df, id, col, table[i].key)
    /\ \A t \in TokensOf(df, col) :
           Occurrences(df, id, col, t) > 0 =>
               \E i \in 1..Len(table) : table[i].key = t

\* C8: for every dataset and identifier the notes table and the off-flavor
\* table map each distinct normalised token to its number of occurrences in
\* the rows whose Id is the identifier, nothing missing, nothing extra.
C8_ExactTables ==
    pc = "return" =>
        /\ res.created
        /\ ExactTable(res.fig.notes, arg.df, arg.id, "Smaknoter")
        /\ ExactTable(res.fig.off_flavors, arg.df, arg.id, "Bismaker")

\* the same, for the calls in which the tables were built
TablesExactWhenBuilt ==
    (pc = "return" /\ res.created) =>
        /\ ExactTable(res.fig.notes, arg.df, arg.id, "Smaknoter")
        /\ ExactTable(res.fig.off_flavors, arg.df, arg.id, "Bismaker")

GroupLines(f) == <<Len(f.notes), Len(f.off_flavors), Len(f.other)>>

GroupTitles == <<"Smaknoter", "Bismaker", "Ovrigt">>

EmittedBefore(f, g) == {h \in 1..3 : h < g /\ GroupLines(f)[h] > 0}

LinesBefore(f, g) ==
    (IF g > 1 THEN GroupLines(f)[1] ELSE 0) + (IF g > 2 THEN GroupLines(f)[2] ELSE 0)

TitleIndex(f, g) ==
    {i \in 1..Len(f.texts) :
        f.texts[i].s.fmt = "title" /\ f.texts[i].s.text = GroupTitles[g]}

\* C9: the panel is reserved (right edge 0.7 instead of 0.9) exactly when a
\* text group is non-empty; groups come in the order notes, off-flavors,
\* other; an empty group emits nothing; a group's title sits at 0.85 minus
\* 0.04 per line and 0.06 per group emitted before it, its lines 0.04 apart
\* below it.
C9_PanelLayout ==
    (pc = "return" /\ res.err = "none") =>
        LET f == res.fig
            n == GroupLines(f)
        IN /\ f.right = (IF \E g \in 1..3 : n[g] > 0 THEN 70 ELSE 90)
           /\ Len(f.texts) = (IF n[1] > 0 THEN n[1] + 1 ELSE 0)
                               + (IF n[2] > 0 THEN n[2] + 1 ELSE 0)
                               + (IF n[3] > 0 THEN n[3] + 1 ELSE 0)
           /\ \A g \in 1..3 : n[g] = 0 => TitleIndex(f, g) = {}
           /\ \A g \in 1..3 : n[g] > 0 =>
                  /\ Cardinality(TitleIndex(f, g)) = 1
                  /\ \A i \in TitleIndex(f, g) :
                         /\ f.texts[i].y = 85 - 4 * LinesBefore(f, g)
                                              - 6 * Cardinality(EmittedBefore(f, g))
                         /\ f.texts[i].x = 72
                         /\ \A k \in 1..n[g] :
                                /\ f.texts[i + k].s.fmt # "title"
                                /\ f.texts[i + k].y = f.texts[i].y - 4 * k
           /\ \A g, h \in 1..3 : \A i \in TitleIndex(f, g), j \in TitleIndex(f, h) :
                  g < h => i < j

C9_Witness ==
    /\ pc = "return"
    /\ res.err = "none"
    /\ Len(res.fig.notes) = 2
    /\ Len(res.fig.off_flavors) = 1
    /\ Len(res.fig.other) = 2
    /\ res.fig.right = 70

\* ------------------------------------------------------- plot_category

Categories == <<"Sotma", "Syrlighet", "Fyllighet", "Helhetsbetyg">>

DistinctIds(df) == {df[i].Id : i \in 1..Len(df)}

RECURSIVE SortedSeq(_)
SortedSeq(S) ==
    IF S = {} THEN <<>>
    ELSE LET m == CHOOSE x \in S : \A y \in S : x <= y
         IN <<m>> \o SortedSeq(S \ {m})

\* .groupby("Id")[category].apply(list): per key, the column's values in
\* row order
group_values(df, category, key) ==
    LET rows == query(df, key)
    IN [i \in 1..Len(rows) |-> rows[i][category]]

\* rename(mapper=id_name_map, axis=1): a label the mapping contains is
\* replaced by its lookup, any other label is kept
rename(id_name_map, key) ==
    IF Contains(id_name_map, key) THEN getitem(id_name_map, key)
    ELSE [err |-> "none", fmt |-> "id", id |-> key, name |-> ""]

\* pd.DataFrame(dict of lists) takes columns of one common length only and
\* raises ValueError otherwise
plot_category(df, category, id_name_map) ==
    LET keys == SortedSeq(DistinctIds(df))
        lists == [k \in 1..Len(keys) |-> group_values(df, category, keys[k])]
    IN IF \E i, j \in 1..Len(keys) : Len(lists[i]) # Len(lists[j])
       THEN Raise("ValueError", FALSE, NoFigure)
       ELSE Raise("none", TRUE,
                  [kind |-> "category", key |-> category, title |-> category,
                   columns |-> [k \in 1..Len(keys) |->
                                   [label |-> rename(id_name_map, keys[k]),
                                    values |-> lists[k]]]])

Scores == {1, 9}

CatRows == {Row(i, s, h, NaN, NaN, NaN) : i \in Ids, s \in Scores, h \in Scores}

InitCategory ==
    /\ pc = "call"
    /\ arg \in [df : SeqsUpTo(CatRows, MaxCatRows),
                category : {Categories[i] : i \in 1..Len(Categories)},
                id_name_map : NameMaps]
    /\ res = Idle
    /\ DriverIdle

CallPlotCategory ==
    /\ pc = "call"
    /\ pc' = "return"
    /\ res' = plot_category(arg.df, arg.category, arg.id_name_map)
    /\ UNCHANGED <<arg, driverVars>>

NextCategory == CallPlotCategory

SpecCategory == InitCategory /\ [][NextCategory]_vars

RowsOf(df, id) == {i \in 1..Len(df) : df[i].Id = id}

\* C10: for every dataset whose identifiers all resolve, groups of unequal
\* size included, plot_category succeeds with one figure holding one column
\* per distinct identifier, labelled "(<id>) <name>" and carrying that
\* identifier's values of the category.
C10_OneColumnPerId ==
    (pc = "return" /\ DistinctIds(arg.df) \subseteq DOMAIN arg.id_name_map) =>
        /\ res.err = "none"
        /\ res.created
        /\ Len(res.fig.columns) = Cardinality(DistinctIds(arg.df))
        /\ \A id \in DistinctIds(arg.df) :
               \E k \in 1..Len(res.fig.columns) :
                   LET col == res.fig.columns[k]
                   IN /\ col.label.fmt = "(id) name"
                      /\ col.label.id = id
                      /\ col.label.name = Namn(id)
                      /\ Len(col.values) = Cardinality(RowsOf(arg.df, id))
                      /\ \A i \in RowsOf(arg.df, id) :
                             col.values[Cardinality({j \in RowsOf(arg.df, id) : j <= i})]
                                 = arg.df[i][arg.category]

\* the same, for datasets whose groups all have one size
ColumnsWhenRectangular ==
    (pc = "return" /\ DistinctIds(arg.df) \subseteq DOMAIN arg.id_name_map
       /\ \A a, b \in DistinctIds(arg.df) :
              Cardinality(RowsOf(arg.df, a)) = Cardinality(RowsOf(arg.df, b))) =>
        /\ res.err = "none"
        /\ Len(res.fig.columns) = Cardinality(DistinctIds(arg.df))
        /\ \A id \in DistinctIds(arg.df) :
               \E k \in 1..Len(res.fig.columns) :
                   LET col == res.fig.columns[k]
                   IN /\ col.label = [err |-> "none", fmt |-> "(id) name",
                                      id |-> id, name |-> Namn(id)]
                      /\ col.values = group_values(arg.df, arg.category, id)

\* ------------------------------------------------------------------ main

PageWidth == 1920

PageHeight == 1080

DriverRows == {Row(i, 5, 5, NaN, NaN, NaN) : i \in Ids}

\* what one instance folder holds: both tables readable, or one of them
\* missing or unparseable
InstanceInputs ==
    [files : {"ok"}, df : SeqsUpTo(DriverRows, MaxRows), id_name_map : NameMaps]
      \cup [files : {"missing", "unparseable"}, df : {<<>>}, id_name_map : {<<>>}]

\* the orders in which a set can be iterated: Python leaves the order of a
\* set open (CPython walks its hash table, where 8 sits before 1)
Orders(S) ==
    {q \in [1..Cardinality(S) -> S] : \A i, j \in 1..Cardinality(S) : q[i] = q[j] => i = j}

\* plt.figure(): the new figure gets the next free number of the
\* process-wide registry, which is its position in figs
new_figure(registry, i, f) ==
    Append(registry, [inst |-> i, kind |-> f.kind, key |-> f.key])

\* plt.get_fignums(): the numbers of all figures the registry holds, ascending
get_fignums(registry) == [n \in 1..Len(registry) |-> n]

InitMain ==
    /\ nfolders \in 0..MaxInstances
    /\ inst = 1
    /\ pc = IF nfolders = 0 THEN "Exit" ELSE "Read"
    /\ cur = Idle
    /\ figs = <<>>
    /\ ids = <<>>
    /\ cat = 1
    /\ nums = <<>>
    /\ docs = <<>>
    /\ calls = <<>>
    /\ arg = Idle
    /\ res = Idle

Fail(e) ==
    /\ pc' = "Failed"
    /\ res' = [op |-> "raise", err |-> e]

\* lines 155-159: both tables are read; a read error ends the run
ReadTables ==
    /\ pc = "Read"
    /\ \E input \in InstanceInputs :
          /\ cur' = input
          /\ IF input.files = "ok"
             THEN pc' = "TitlePage" /\ res' = res
             ELSE Fail(IF input.files = "missing" THEN "FileNotFoundError"
                                                  ELSE "ParserError")
    /\ UNCHANGED <<arg, nfolders, inst, figs, ids, cat, nums, docs, calls>>

TitlePage_opening_pdf ==
    /\ pc = "TitlePage"
    /\ figs' = new_figure(figs, inst, [kind |-> "title", key |-> inst])
    /\ docs' = Append(docs, [inst |-> inst, open |-> TRUE, pages |-> <<>>])
    /\ pc' = "MeadLoop"
    /\ UNCHANGED <<arg, res, nfolders, inst, cur, ids, cat, nums, calls>>

\* lines 163-167
TitlePage ==
    /\ pc = "TitlePage"
    /\ figs' = new_figure(figs, inst, [kind |-> "title", key |-> inst])
    /\ pc' = "MeadLoop"
    /\ UNCHANGED <<arg, res, nfolders, inst, cur, ids, cat, nums, docs, calls>>

\* line 170: set(sorted(df.get("Id"))) is built and its iteration begins
MeadLoop ==
    /\ pc = "MeadLoop"
    /\ ids' \in Orders(DistinctIds(cur.df))
    /\ cat' = 1
    /\ pc' = IF ids' = <<>> THEN "Categories" ELSE "MeadInfo"
    /\ UNCHANGED <<arg, res, nfolders, inst, cur, figs, nums, docs, calls>>

\* line 171: one call of plot_mead_info
MeadInfo ==
    /\ pc = "MeadInfo"
    /\ LET r == plot_mead_info(cur.df, Head(ids), cur.id_name_map)
       IN /\ calls' = Append(calls, [inst |-> inst, id |-> Head(ids)])
          /\ figs' = IF r.created THEN new_figure(figs, inst, r.fig) ELSE figs
          /\ IF r.err # "none"
             THEN Fail(r.err) /\ ids' = ids
             ELSE /\ ids' = Tail(ids)
                  /\ pc' = IF ids' = <<>> THEN "Categories" ELSE "MeadInfo"
                  /\ res' = res
    /\ UNCHANGED <<arg, nfolders, inst, cur, cat, nums, docs>>

\* lines 174-175: one call of plot_category
CategoryPlot ==
    /\ pc = "Categories"
    /\ LET r == plot_category(cur.df, Categories[cat], cur.id_name_map)
       IN /\ figs' = IF r.created THEN new_figure(figs, inst, r.fig) ELSE figs
          /\ IF r.err # "none"
             THEN Fail(r.err) /\ cat' = cat
             ELSE /\ cat' = cat + 1
                  /\ pc' = IF cat = Len(Categories) THEN "OpenPdf" ELSE "Categories"
                  /\ res' = res
    /\ UNCHANGED <<arg, nfolders, inst, cur, ids, nums, docs, calls>>

\* lines 178-179: the document is opened and the figure numbers are listed
OpenPdf ==
    /\ pc = "OpenPdf"
    /\ docs' = Append(docs, [inst |-> inst, open |-> TRUE, pages |-> <<>>])
    /\ nums' = get_fignums(figs)
    /\ pc' = IF nums' = <<>> THEN "ClosePdf" ELSE "SaveFig"
    /\ UNCHANGED <<arg, res, nfolders, inst, cur, figs, ids, cat, calls>>

\* lines 180-182: one figure is sized and saved as the next page
SaveFig ==
    /\ pc = "SaveFig"
    /\ LET n == Head(nums)
           page == [num |-> n, fig |-> figs[n], size |-> <<PageWidth, PageHeight>>]
       IN docs' = [docs EXCEPT ![Len(docs)].pages = Append(@, page)]
    /\ nums' = Tail(nums)
    /\ pc' = IF nums' = <<>> THEN "ClosePdf" ELSE "SaveFig"
    /\ UNCHANGED <<arg, res, nfolders, inst, cur, figs, ids, cat, calls>>

\* line 183, and the step of the loop over the folders; no figure is closed
ClosePdf ==
    /\ pc = "ClosePdf"
    /\ docs' = [docs EXCEPT ![Len(docs)].open = FALSE]
    /\ inst' = inst + 1
    /\ pc' = IF inst' > nfolders THEN "Exit" ELSE "Read"
    /\ UNCHANGED <<arg, res, nfolders, cur, figs, ids, cat, nums, calls>>

Next ==
    \/ ReadTables
    \/ TitlePage
    \/ MeadLoop
    \/ MeadInfo
    \/ CategoryPlot
    \/ OpenPdf
    \/ SaveFig
    \/ ClosePdf

Spec == InitMain /\ [][Next]_vars

FiguresOf(i) == SelectSeq(figs, LAMBDA f : f.inst = i)

PageFigures(d) == [k \in 1..Len(d.pages) |-> d.pages[k].fig]

\* C1: when the processing of an instance folder completes the figure
\* registry is empty, so every document holds figures of its own instance
\* only.
C1_RegistryDrained ==
    /\ (pc \in {"Read", "Exit"} => figs = <<>>)
    /\ \A i \in 1..Len(docs) : \A k \in 1..Len(docs[i].pages) :
           docs[i].pages[k].fig.inst = i

\* C2: the finished document of an instance holds each figure created for
\* that instance exactly once, one per page, in creation order, and so has
\* as many pages as figures were created for the instance.
C2_PagesAreOwnFigures ==
    \A i \in 1..Len(docs) :
        ~docs[i].open => PageFigures(docs[i]) = FiguresOf(i)

\* the same with the figures left over from earlier instances counted in:
\* a finished document holds every figure of the registry once, in order
PagesAreRegistry ==
    \A i \in 1..Len(docs) :
        ~docs[i].open =>
            /\ Len(docs[i].pages) <= Len(figs)
            /\ \A k \in 1..Len(docs[i].pages) :
                   docs[i].pages[k].num = k /\ docs[i].pages[k].fig = figs[k]
            /\ \A n \in 1..Len(figs) :
                   figs[n].inst <= i => n <= Len(docs[i].pages)

Resolvable == DistinctIds(cur.df) \subseteq DOMAIN cur.id_name_map

\* C3: a run over one readable instance folder with k distinct identifiers,
\* all resolvable, ends with a document of 1 + k + 4 pages: the title page,
\* then the k per-identifier figures, then the four category figures in the
\* order Sotma, Syrlighet, Fyllighet, Helhetsbetyg.
C3_PhaseOrder ==
    (nfolders = 1 /\ pc \in {"Exit", "Failed"} /\ cur.files = "ok" /\ Resolvable) =>
        /\ pc = "Exit"
        /\ Len(docs) = 1
        /\ LET k == Cardinality(DistinctIds(cur.df))
               pages == PageFigures(docs[1])
           IN /\ Len(pages) = 1 + k + 4
              /\ pages[1].kind = "title"
              /\ \A n \in 2..(k + 1) : pages[n].kind = "mead"
              /\ {pages[n].key : n \in 2..(k + 1)} = DistinctIds(cur.df)
              /\ \A c \in 1..4 :
                     /\ pages[k + 1 + c].kind = "category"
                     /\ pages[k + 1 + c].key = Categories[c]

\* the same, for tables in which every identifier has the same number of rows
PhaseOrderWhenRectangular ==
    (nfolders = 1 /\ pc \in {"Exit", "Failed"} /\ cur.files = "ok" /\ Resolvable
       /\ \A a, b \in DistinctIds(cur.df) :
              Cardinality(RowsOf(cur.df, a)) = Cardinality(RowsOf(cur.df, b))) =>
        /\ pc = "Exit"
        /\ LET k == Cardinality(DistinctIds(cur.df))
               pages == PageFigures(docs[1])
           IN /\ Len(pages) = 1 + k + 4
              /\ pages[1].kind = "title"
              /\ \A n \in 2..(k + 1) : pages[n].kind = "mead"
              /\ \A c \in 1..4 :
                     /\ pages[k + 1 + c].kind = "category"
                     /\ pages[k + 1 + c].key = Categories[c]

CallsOf(i) ==
    LET mine == SelectSeq(calls, LAMBDA c : c.inst = i)
    IN [k \in 1..Len(mine) |-> mine[k].id]

\* C4: once the per-identifier step is over, plot_mead_info has been called
\* exactly once per distinct identifier of the ratings table, in ascending
\* order of identifier.
C4_AscendingCalls ==
    pc \in {"Categories", "OpenPdf", "SaveFig", "ClosePdf"} =>
        CallsOf(inst) = SortedSeq(DistinctIds(cur.df))

\* the same without the order
OncePerIdentifier ==
    pc \in {"Categories", "OpenPdf", "SaveFig", "ClosePdf"} =>
        /\ Len(CallsOf(inst)) = Cardinality(DistinctIds(cur.df))
        /\ {CallsOf(inst)[k] : k \in 1..Len(CallsOf(inst))} = DistinctIds(cur.df)

\* every figure of the current instance exists: the title page, one figure
\* per distinct identifier, the four category figures
AllFiguresCreated ==
    LET mine == FiguresOf(inst)
        k == Cardinality(DistinctIds(cur.df))
    IN /\ Len(mine) = 1 + k + 4
       /\ mine[1].kind = "title"
       /\ {mine[n].key : n \in 2..(k + 1)} = DistinctIds(cur.df)
       /\ \A c \in 1..4 : mine[k + 1 + c] =
              [inst |-> inst, kind |-> "category", key |-> Categories[c]]

\* C5: a failing instance (missing file, unparseable row, unresolvable
\* identifier) leaves no document, partial or complete: the document of an
\* instance is opened only after all of its figures have been created.
C5_NoDocumentOnFailure ==
    /\ pc = "Failed" => Len(docs) = inst - 1
    /\ \A i \in 1..Len(docs) : docs[i].inst = i
    /\ Len(docs) >= inst =>
           /\ Len(docs) = inst
           /\ pc \in {"SaveFig", "ClosePdf"}
           /\ AllFiguresCreated

C5_Witness ==
    /\ pc = "Failed"
    /\ res.err = "KeyError"
    /\ inst = 2
    /\ Len(docs) = 1
    /\ Len(FiguresOf(2)) >= 2

====
